---- MODULE Spec2Model ----
(***************************************************************************)
(* Post-processing of LandTrendr segmentation output for Sentinel-2        *)
(* (src/src/ltgee/landtrendr.py, class Sentinel2LandTrendr).               *)
(*                                                                         *)
(* Every method is a per-pixel pure function of its inputs, so the model   *)
(* follows one pixel (one small raster for apply_mmu).  Each component has *)
(* its own specification: the initial states draw the inputs from bounded  *)
(* sets and the actions are the method calls.                              *)
(*                                                                         *)
(* Array-valued pixels are sequences of rows (axis 0 = rows, axis 1 =      *)
(* columns).  Array elements are exact rationals <<n, d>>, d > 0, in       *)
(* lowest terms.  The Earth Engine operations the methods call are         *)
(* modelled by operators named after them, next to the line that calls     *)
(* them.  get_segment_data and get_fitted_data read their bands through    *)
(* `self`; the model binds that receiver to the segmentation output.       *)
(***************************************************************************)
EXTENDS Integers, Sequences, FiniteSets, TLC

VARIABLES
    lt,           \* the pixel of band 'LandTrendr': its mask and its rows <<year, source, fitted, is-vertex>>
    rmse,         \* the pixel of band 'rmse'
    delta,        \* get_segment_data: argument delta of the last call
    index_flip,   \* get_segment_data: argument index_flip of the last call
    options,      \* get_segment_data: argument options of the last call
    segment_data, \* get_segment_data: what the last call returned
    maxSegments,  \* runParams['maxSegments']
    ltVertStack,  \* getLTvertStack: what the last call returned
    image,        \* apply_mmu: argument image, a raster on its 10 m grid
    mmu_value,    \* apply_mmu: argument mmu_value of the last call
    min_area,     \* apply_mmu: what the last call returned
    self_collection, \* self.collection: the pixel's fitted-value bands, band name -> annual array
    index,        \* get_fitted_data: argument index of the last call
    bands,        \* get_fitted_rgb_col: argument bands of the last call
    vis_params,   \* get_fitted_rgb_col: argument vis_params of the last call
    start_date,   \* argument start_date of the last call
    end_date,     \* argument end_date of the last call
    fitted_data,  \* get_fitted_data: what the last call returned
    rgb_col,      \* get_fitted_rgb_col: what the last call returned
    collection,   \* collection_to_band_stack: argument collection, one pixel of each image
    mask_fill,    \* collection_to_band_stack: argument mask_fill of the last call
    band_stack    \* collection_to_band_stack: what the last call returned

segVars == <<lt, rmse, delta, index_flip, options, segment_data>>
vertVars == <<maxSegments, ltVertStack>>
mmuVars == <<image, mmu_value, min_area>>
fitVars == <<self_collection, index, bands, vis_params, fitted_data, rgb_col>>
dateVars == <<start_date, end_date>>
stackVars == <<collection, mask_fill, band_stack>>
vars == <<segVars, vertVars, mmuVars, fitVars, dateVars, stackVars>>

\* ------------------------------------------------------------ bounds
\* columns of the LandTrendr array of a pixel
MaxCols == 3
\* largest maxSegments tried
MaxSeg == 2
\* width and height of the small rasters given to apply_mmu
GridW == 3
GridH == 2
\* the years a caller may name: FirstYear .. FirstYear + MaxYears - 1
FirstYear == 1999
MaxYears == 5
\* images of a collection given to collection_to_band_stack
MaxImages == 3
\* toUint16(): the largest unsigned 16-bit integer
Uint16Max == 65535
\* connectedPixelCount() is called without maxSize: Earth Engine's default
ConnectedMaxSize == 100

Years == {2000, 2005, 2010}
FitValues == {10, 12, 15}
SrcValues == {3, 4}
PadSrcValues == {5}
PadFitValues == {11}
RmseValues == {0, 2}

NotCalled == [kind |-> "not_called"]
\* the computation fails (an exception, or an Earth Engine error when the
\* result is evaluated)
Failed == [kind |-> "error"]
PyNone == [kind |-> "None"]

\* ------------------------------------------------------------ numbers
Abs(n) == IF n < 0 THEN -n ELSE n

RECURSIVE Gcd(_, _)
Gcd(a, b) == IF b = 0 THEN a ELSE Gcd(b, a % b)

Norm(n, d) ==
    LET g == Gcd(Abs(n), Abs(d))
        s == IF d < 0 THEN -1 ELSE 1
    IN  <<(s * n) \div g, (s * d) \div g>>

Num(n) == <<n, 1>>

SubtractReversed(a, b) == Norm(b[1] * a[2] - a[1] * b[2], a[2] * b[2])
Subtract(a, b) == Norm(a[1] * b[2] - b[1] * a[2], a[2] * b[2])

Multiply(a, b) == Norm(a[1] * b[1], a[2] * b[2])

\* ee divide: "returning 0 for division by 0"
Divide(a, b) == IF b[1] = 0 THEN Num(0) ELSE Norm(a[1] * b[2], a[2] * b[1])

AbsNum(a) == <<Abs(a[1]), a[2]>>

Lt0(a) == IF a[1] < 0 THEN Num(1) ELSE Num(0)

Gt0(a) == IF a[1] > 0 THEN Num(1) ELSE Num(0)

Le0(a) == IF a[1] <= 0 THEN Num(1) ELSE Num(0)

\* ------------------------------------------------------------ arrays
\* element-wise operations on 1 x k arrays
ArraySubtract(a, b) == <<[j \in 1..Len(a[1]) |-> Subtract(a[1][j], b[1][j])]>>

ArrayDivide(a, b) == <<[j \in 1..Len(a[1]) |-> Divide(a[1][j], b[1][j])]>>

\* a 1 x k array with a scalar band
ArrayDivideScalar(a, s) == <<[j \in 1..Len(a[1]) |-> Divide(a[1][j], s)]>>

ArrayMultiplyScalar(a, s) == <<[j \in 1..Len(a[1]) |-> Multiply(a[1][j], s)]>>

ArrayAbs(a) == <<[j \in 1..Len(a[1]) |-> AbsNum(a[1][j])]>>

ArrayLt0(a) == <<[j \in 1..Len(a[1]) |-> Lt0(a[1][j])]>>

ArrayLte0(a) == <<[j \in 1..Len(a[1]) |-> Le0(a[1][j])]>>

ArrayGt0(a) == <<[j \in 1..Len(a[1]) |-> Gt0(a[1][j])]>>

Min(a, b) == IF a < b THEN a ELSE b

Max(a, b) == IF a > b THEN a ELSE b

\* the elements of seq at the positions start..end-1 (0-based) that are in
\* range of the axis; negative start/end count from the end of the axis
Slice(seq, start, end) ==
    LET len == Len(seq)
        s == IF start < 0 THEN len + start ELSE start
        e == IF end < 0 THEN len + end ELSE end
    IN  SubSeq(seq, Max(s, 0) + 1, Min(e, len))

ArraySlice(arr, axis, start, end) ==
    IF axis = 0
    THEN Slice(arr, start, end)
    ELSE [r \in 1..Len(arr) |-> Slice(arr[r], start, end)]

\* arraySlice with end None / omitted: to the end of the axis
ArraySliceFrom(arr, axis, start) ==
    IF axis = 0
    THEN Slice(arr, start, Len(arr))
    ELSE [r \in 1..Len(arr) |-> Slice(arr[r], start, Len(arr[r]))]

ArrayMaskKeepAll(arr, mask) == arr
\* arrayMask with a 1 x N mask: keeps the columns whose mask element is non-zero
ArrayMask(arr, mask) ==
    LET keep == SelectSeq([j \in 1..Len(mask[1]) |-> j], LAMBDA j : mask[1][j][1] # 0)
    IN  [r \in 1..Len(arr) |-> [i \in 1..Len(keep) |-> arr[r][keep[i]]]]

\* Image.cat(bands).unmask(fill).toArray(0): a masked pixel takes the fill
\* array in every band; the bands are then concatenated along axis 0
RECURSIVE ToArray0(_)
ToArray0(imgs) == IF imgs = <<>> THEN <<>> ELSE Head(imgs) \o ToArray0(Tail(imgs))

Fill == <<<<Num(-9999)>>>>

CatUnmaskToArray(masked, imgs) ==
    [kind |-> "image",
     array |-> ToArray0([b \in 1..8 |-> IF masked THEN Fill ELSE imgs[b]])]

\* ------------------------------------------------------------ the pixel
\* self.select('LandTrendr') / self.select('rmse')
IsMasked == lt.masked

LtArray == [r \in 1..4 |-> [j \in 1..Len(lt.array[r]) |-> Num(lt.array[r][j])]]

RmseBand == Num(rmse)

\* ------------------------------------------------------------ get_segment_data
\* lines 54-68: the eight 1 x (M-1) arrays every branch is built from
SegmentArrays ==
    LET lt_band == LtArray
        vertex_mask == ArraySlice(lt_band, 0, 3, 4)
        vertices == ArrayMask(lt_band, vertex_mask)
        left_list == ArraySlice(vertices, 1, 0, -1)
        right_list == ArraySliceFrom(vertices, 1, 1)
        start_year == ArraySlice(left_list, 0, 0, 1)
        start_val == ArraySlice(left_list, 0, 2, 3)
        end_year == ArraySlice(right_list, 0, 0, 1)
        end_val == ArraySlice(right_list, 0, 2, 3)
        dur == ArraySubtract(end_year, start_year)
        mag == ArraySubtract(end_val, start_val)
        rate == ArrayDivide(mag, dur)
        dsnr == ArrayDivideScalar(mag, RmseBand)
    IN  [start_year |-> start_year, end_year |-> end_year,
         start_val |-> start_val, end_val |-> end_val,
         mag |-> mag, dur |-> dur, rate |-> rate, dsnr |-> dsnr]

Negate(a) == ArrayMultiplyScalar(a, Num(-1))

\* options and options.get('right')
RightOption(opt) == opt = "right"

\* lines 70-81
segment_all(flip, opt) ==
    LET s == SegmentArrays
        f == RightOption(opt) /\ flip
    IN  CatUnmaskToArray(IsMasked,
            IF IsMasked THEN <<>>
            ELSE <<s.start_year, s.end_year,
                   IF f THEN Negate(s.start_val) ELSE s.start_val,
                   IF f THEN Negate(s.end_val) ELSE s.end_val,
                   IF f THEN Negate(s.mag) ELSE s.mag,
                   s.dur,
                   IF f THEN Negate(s.rate) ELSE s.rate,
                   IF f THEN Negate(s.dsnr) ELSE s.dsnr>>)

ChangeTypeMaskLte(d, mag) == IF d = "gain" THEN ArrayLte0(mag) ELSE ArrayGt0(mag)
\* line 84
ChangeTypeMask(d, mag) == IF d = "gain" THEN ArrayLt0(mag) ELSE ArrayGt0(mag)

\* lines 83-95
segment_change(d, flip) ==
    LET s == SegmentArrays
        change_type_mask == ChangeTypeMask(d, s.mag)
        fl == IF flip THEN Num(-1) ELSE Num(1)
    IN  CatUnmaskToArray(IsMasked,
            IF IsMasked THEN <<>>
            ELSE <<ArrayMask(s.start_year, change_type_mask),
                   ArrayMask(s.end_year, change_type_mask),
                   ArrayMultiplyScalar(ArrayMask(s.start_val, change_type_mask), fl),
                   ArrayMultiplyScalar(ArrayMask(s.end_val, change_type_mask), fl),
                   ArrayAbs(ArrayMask(s.mag, change_type_mask)),
                   ArrayMask(s.dur, change_type_mask),
                   ArrayAbs(ArrayMask(s.rate, change_type_mask)),
                   ArrayAbs(ArrayMask(s.dsnr, change_type_mask))>>)

get_segment_data(d, flip, opt) ==
    IF d = "all" THEN segment_all(flip, opt)
    ELSE IF d \in {"gain", "loss"} THEN segment_change(d, flip)
    ELSE PyNone

\* ------------------------------------------------------------ getLTvertStack
Digits == <<"0", "1", "2", "3", "4", "5", "6", "7", "8", "9">>

\* str(n) of a non-negative integer
RECURSIVE Str(_)
Str(n) == IF n < 10 THEN Digits[n + 1] ELSE Str(n \div 10) \o Digits[(n % 10) + 1]

ToArray1Swapped(a, b) == [r \in 1..Len(a) |-> b[r] \o a[r]]
\* toArray(1) of two array bands: concatenation along axis 1
ToArray1(a, b) == [r \in 1..Len(a) |-> a[r] \o b[r]]

\* arrayFlatten(labels, separator): one band per element, row-major
RECURSIVE Concat(_)
Concat(seqs) == IF seqs = <<>> THEN <<>> ELSE Head(seqs) \o Concat(Tail(seqs))

FlattenNames(lbls, sep) ==
    Concat([r \in 1..Len(lbls[1]) |->
              [c \in 1..Len(lbls[2]) |-> lbls[1][r] \o sep \o lbls[2][c]]])

FlattenValues(arr) == Concat(arr)

getLTvertStack(runParams) ==
    LET ltb == LtArray
        n == runParams.maxSegments + 1
        vertLabels == [i \in 1..n |-> "vert_" \o Str(i)]
        emptyArray == [i \in 1..n |-> Num(0)]
        zeros == <<emptyArray, emptyArray, emptyArray>>
        lbls == <<<<"yrs_", "src_", "fit_">>, vertLabels>>
        vmask == ArraySlice(ltb, 0, 3, 4)
        stack == ArraySlice(
                     ToArray1(ArraySlice(ArrayMask(ltb, vmask), 0, 0, 3), zeros),
                     1, 0, runParams.maxSegments + 1)
    IN  [kind |-> "image",
         names |-> FlattenNames(lbls, ""),
         masked |-> IsMasked,
         values |-> IF IsMasked THEN <<>> ELSE FlattenValues(stack)]

\* ------------------------------------------------------------ apply_mmu
Grid(w, h) == (1..w) \X (1..h)

\* 8-connected (connectedPixelCount's default eightConnected = true)
Adjacent(p, q) == p # q /\ Abs(p[1] - q[1]) <= 1 /\ Abs(p[2] - q[2]) <= 1

RECURSIVE Flood(_, _, _)
Flood(seen, frontier, U) ==
    IF frontier = {} THEN seen
    ELSE LET new == {q \in U \ seen : \E p \in frontier : Adjacent(p, q)}
         IN  Flood(seen \cup new, new, U)

\* the pixels of U connected to p through pixels of U, p included
Component(p, U) == Flood({p}, {p}, U)

\* connectedPixelCount(): for every unmasked pixel the number of connected
\* unmasked pixels of the same value, itself included, at most maxSize
ConnectedPixelCount(px, U) ==
    [p \in U |-> Min(Cardinality(Component(p, {q \in U : px[q] = px[p]})), ConnectedMaxSize)]

apply_mmu(img, mmu) ==
    LET G == Grid(img.w, img.h)
        gte1 == [p \in G |-> IF img.px[p] >= 1 THEN 1 ELSE 0]
        unmasked == {p \in G : gte1[p] # 0}
        mmu_image == ConnectedPixelCount(gte1, unmasked)
        kept == {p \in unmasked : mmu_image[p] >= mmu}
    IN  [kind |-> "image", w |-> img.w, h |-> img.h,
         px |-> [p \in G |-> IF p \in kept THEN 1 ELSE 0]]

\* ------------------------------------------------------------ get_fitted_data
\* str.lower() on the index names of the model
Lower(name) ==
    CASE name = "NDVI" -> "ndvi"
      [] name = "NBR" -> "nbr"
      [] name = "TCW" -> "tcw"
      [] OTHER -> name

\* range(a, b)
PyRange(a, b) == [k \in 1..Max(b - a, 0) |-> a + k - 1]

YearLabelsExclusive(sd, ed) == [k \in 1..Max(ed.year - sd.year, 0) |-> Str(sd.year + k - 1)]
\* [str(y) for y in range(start_date.year, end_date.year + 1)]
YearLabels(sd, ed) ==
    LET ys == PyRange(sd.year, ed.year + 1)
    IN  [k \in 1..Len(ys) |-> Str(ys[k])]

\* arrayFlatten([labels]) of a 1-D array band: one band per element, named by
\* the labels; an error unless there is one label per element
ArrayFlatten(arr, labels) ==
    IF Len(arr) # Len(labels) THEN Failed
    ELSE [kind |-> "image", names |-> labels, values |-> arr]

get_fitted_data(idx, sd, ed) ==
    LET search == "ftv_" \o Lower(idx) \o "_fit"
    IN  IF search \notin DOMAIN self_collection THEN Failed
        ELSE ArrayFlatten(self_collection[search], YearLabels(sd, ed))

\* ------------------------------------------------------------ get_fitted_rgb_col
\* image.select(name)
SelectBand(img, name) ==
    img.values[CHOOSE k \in 1..Len(img.names) : img.names[k] = name]

\* visualize(min, max): linear stretch of [min, max] to a byte
Visualize(v, vis) == Max(0, Min(255, ((v - vis.min) * 255) \div (vis.max - vis.min)))

\* days from 1970-01-01 to the civil date y-m-d
DaysFromCivil(y, m, d) ==
    LET yy == IF m <= 2 THEN y - 1 ELSE y
        era == yy \div 400
        yoe == yy - era * 400
        mp == IF m > 2 THEN m - 3 ELSE m + 9
        doy == (153 * mp + 2) \div 5 + d - 1
        doe == yoe * 365 + yoe \div 4 - yoe \div 100 + doy
    IN  era * 146097 + doe - 719468

\* ee.Date.fromYMD(y, m, d).millis(), in days (the milliseconds are this
\* times 86 400 000)
TimeStart(y, m, d) == DaysFromCivil(y, m, d)

get_fitted_rgb_col(bs, vis, sd, ed) ==
    LET r == get_fitted_data(bs[1], sd, ed)
        g == get_fitted_data(bs[2], sd, ed)
        b == get_fitted_data(bs[3], sd, ed)
        years == PyRange(sd.year, ed.year + 1)
    IN  IF Failed \in {r, g, b} THEN Failed
        ELSE [kind |-> "collection",
              images |->
                [k \in 1..Len(years) |->
                   LET year_str == Str(years[k])
                   IN  [names |-> <<"vis-red", "vis-green", "vis-blue">>,
                        values |-> <<Visualize(SelectBand(r, year_str), vis),
                                     Visualize(SelectBand(g, year_str), vis),
                                     Visualize(SelectBand(b, year_str), vis)>>,
                        time_start |-> TimeStart(sd.year, sd.month, sd.day),
                        composite_year |-> sd.year]]]

\* ------------------------------------------------------------ collection_to_band_stack
UnmaskZero(img, fill) ==
    [img EXCEPT !.values = [b \in 1..Len(img.values) |->
        IF img.values[b].masked THEN [masked |-> FALSE, v |-> 0] ELSE img.values[b]]]
\* image.unmask(mask_fill): masked pixels take the fill value, in every band
Unmask(img, fill) ==
    [img EXCEPT !.values = [b \in 1..Len(img.values) |->
        IF img.values[b].masked THEN [masked |-> FALSE, v |-> fill] ELSE img.values[b]]]

\* toArrayPerBand().select(band): the band's values over the images, in
\* collection order
BandArray(coll, b) == [k \in 1..Len(coll) |-> coll[k].values[b].v]

\* the name a band called `name` gets when added to an image that holds the
\* bands `taken`: the name itself, or the first of name_1, name_2, ... not taken
RECURSIVE Suffixed(_, _, _)
Suffixed(name, taken, j) ==
    LET cand == name \o "_" \o Str(j)
    IN  IF cand \notin taken THEN cand ELSE Suffixed(name, taken, j + 1)

UniqueName(name, taken) == IF name \notin taken THEN name ELSE Suffixed(name, taken, 1)

Range(seq) == {seq[i] : i \in 1..Len(seq)}

\* Image.addBands(dst, src) one band at a time
RECURSIVE AddBands(_, _, _)
AddBands(dst, src, k) ==
    IF k > Len(src.names) THEN dst
    ELSE AddBands([names |-> Append(dst.names, UniqueName(src.names[k], Range(dst.names))),
                   values |-> Append(dst.values, src.values[k])],
                  src, k + 1)

\* ee.Image(): one masked band named 'constant'
EmptyImage == [names |-> <<"constant">>, values |-> <<[masked |-> TRUE, v |-> 0]>>]

\* toUint16(): out-of-range values saturate
ToUint16(v) == Max(0, Min(Uint16Max, v))

\* the loop of lines 106-110 from band b on
RECURSIVE StackBands(_, _, _, _)
StackBands(all_stack, coll, labels, b) ==
    IF b > Len(coll[1].names) THEN all_stack
    ELSE LET band_ts == ArrayFlatten([k \in 1..Len(coll) |-> [masked |-> FALSE, v |-> BandArray(coll, b)[k]]],
                                     labels)
         IN  IF band_ts = Failed THEN Failed
             ELSE StackBands(AddBands(all_stack, band_ts, 1), coll, labels, b + 1)

collection_to_band_stack(coll, sd, ed, fill) ==
    IF coll = <<>> THEN Failed
    ELSE LET unmasked_collection == [k \in 1..Len(coll) |-> Unmask(coll[k], fill)]
             all_stack == StackBands(EmptyImage, unmasked_collection, YearLabels(sd, ed), 1)
         IN  IF all_stack = Failed THEN Failed
             ELSE [kind |-> "image",
                   names |-> ArraySliceFrom(all_stack.names, 0, 1),
                   values |-> [k \in 1..(Len(all_stack.values) - 1) |->
                                 ToUint16(all_stack.values[k + 1].v)]]

\* ------------------------------------------------------------ inputs
NonDecreasing(n) == {y \in [1..n -> Years] : \A j \in 1..(n - 1) : y[j] <= y[j + 1]}

\* the columns of a LandTrendr array, <<source, fitted, is-vertex>>: a vertex
\* draws its source value from S and its fitted value from F, another
\* column draws them from PadSrcValues and PadFitValues
Columns(S, F) ==
    {<<s, f, 1>> : s \in S, f \in F}
        \cup {<<s, f, 0>> : s \in PadSrcValues, f \in PadFitValues}

\* the LandTrendr arrays with n columns
Arrays(n, S, F) ==
    {<<y, [j \in 1..n |-> c[j][1]], [j \in 1..n |-> c[j][2]], [j \in 1..n |-> c[j][3]]>> :
        y \in NonDecreasing(n), c \in [1..n -> Columns(S, F)]}

MaskedPixel == [masked |-> TRUE, array |-> <<<<>>, <<>>, <<>>, <<>>>>]

Pixels(S, F) ==
    {MaskedPixel} \cup {[masked |-> FALSE, array |-> a] : a \in UNION {Arrays(n, S, F) : n \in 0..MaxCols}}

NumVertices(p) == Cardinality({j \in 1..Len(p.array[4]) : p.array[4][j] = 1})

Deltas == {"all", "gain", "loss", "change"}

Options == {"None", "right_false", "right"}

\* the rasters given to apply_mmu: every small raster, and one row of
\* ConnectedMaxSize + 1 set pixels
SmallRasters == {[w |-> GridW, h |-> GridH, px |-> f] : f \in [Grid(GridW, GridH) -> {0, 1, 2}]}

Strip ==
    [w |-> ConnectedMaxSize + 1, h |-> 1,
     px |-> [p \in Grid(ConnectedMaxSize + 1, 1) |-> 1]]

MmuValues == {1, 2, 5, ConnectedMaxSize + 1}

\* the fitted-value bands of a pixel whose series has L years
Stores ==
    {[b \in {"ftv_ndvi_fit", "ftv_nbr_fit", "ftv_tcw_fit"} |->
        IF b = "ftv_ndvi_fit" THEN v
        ELSE IF b = "ftv_nbr_fit" THEN [k \in 1..Len(v) |-> 10 + k]
        ELSE [k \in 1..Len(v) |-> 20 + k]] :
     v \in UNION {[1..L -> {1, 2}] : L \in 1..MaxYears}}

CallYears == FirstYear..(FirstYear + MaxYears - 1)

StartDates ==
    {[year |-> y, month |-> md[1], day |-> md[2]] : y \in CallYears, md \in {<<1, 1>>, <<8, 1>>}}

EndDates == {[year |-> y, month |-> 12, day |-> 31] : y \in CallYears}

NoDate == [year |-> 0, month |-> 0, day |-> 0]

IndexNames == {"NDVI", "ndvi", "NBR", "TCW", "EVI"}

BandTriples == {<<"NBR", "NDVI", "TCW">>, <<"NDVI", "NDVI", "EVI">>}

VisParams == {[min |-> 0, max |-> 255], [min |-> 0, max |-> 51]}

\* one pixel of the images of a collection: n images of consecutive years from
\* `first`, with the band names `names`
StackYears == FirstYear..(FirstYear + MaxImages)

PixelValues(name) ==
    IF name = "B4"
    THEN {[masked |-> TRUE, v |-> 0], [masked |-> FALSE, v |-> 7], [masked |-> FALSE, v |-> 70000]}
    ELSE {[masked |-> TRUE, v |-> 0], [masked |-> FALSE, v |-> 5]}

ImagesOf(names, y) ==
    {[year |-> y, names |-> names, values |-> vs] :
        vs \in {f \in [1..Len(names) -> PixelValues("B4") \cup PixelValues("B8")] :
                   \A b \in 1..Len(names) : f[b] \in PixelValues(names[b])}}

CollectionsOf(names, first, n) ==
    {c \in [1..n -> UNION {ImagesOf(names, y) : y \in first..(first + n - 1)}] :
        \A k \in 1..n : c[k].year = first + k - 1}

Collections ==
    UNION {CollectionsOf(names, first, n) :
              names \in {<<"B4">>, <<"B4", "B8">>},
              first \in StackYears,
              n \in 0..MaxImages}

MaskFills == {0, 9, -1}

\* the variables of the components a specification leaves alone
IdleSeg ==
    /\ lt = MaskedPixel
    /\ rmse = 0
    /\ delta = "none"
    /\ index_flip = FALSE
    /\ options = "None"
    /\ segment_data = NotCalled

IdleVert ==
    /\ maxSegments = 1
    /\ ltVertStack = NotCalled

IdleMmu ==
    /\ image = [w |-> 0, h |-> 0, px |-> <<>>]
    /\ mmu_value = 1
    /\ min_area = NotCalled

IdleFit ==
    /\ self_collection = <<>>
    /\ index = "none"
    /\ bands = <<>>
    /\ vis_params = [min |-> 0, max |-> 255]
    /\ fitted_data = NotCalled
    /\ rgb_col = NotCalled

IdleDates ==
    /\ start_date = NoDate
    /\ end_date = NoDate

IdleStack ==
    /\ collection = <<>>
    /\ mask_fill = 0
    /\ band_stack = NotCalled

\* ------------------------------------------------------------ segment specification
InitSeg ==
    /\ lt \in Pixels({3}, FitValues)
    /\ rmse \in RmseValues
    /\ delta = "none"
    /\ index_flip = FALSE
    /\ options = "None"
    /\ segment_data = NotCalled
    /\ IdleVert
    /\ IdleMmu
    /\ IdleFit
    /\ IdleDates
    /\ IdleStack

GetSegmentData ==
    \E d \in Deltas, f \in BOOLEAN, o \in Options :
        /\ segment_data = NotCalled
        /\ delta' = d
        /\ index_flip' = f
        /\ options' = o
        /\ segment_data' = get_segment_data(d, f, o)
        /\ UNCHANGED <<lt, rmse, vertVars, mmuVars, fitVars, dateVars, stackVars>>

NextSeg == GetSegmentData

SpecSeg == InitSeg /\ [][NextSeg]_vars

\* ------------------------------------------------------------ properties: get_segment_data
\* the columns of the pixel's array that the is-vertex row marks, in order
VertexCols == SelectSeq([j \in 1..Len(lt.array[4]) |-> j], LAMBDA j : lt.array[4][j] = 1)

VertexYears == [i \in 1..Len(VertexCols) |-> lt.array[1][VertexCols[i]]]

VertexFits == [i \in 1..Len(VertexCols) |-> lt.array[3][VertexCols[i]]]

Returned == segment_data.kind = "image"

NumSegments == Len(segment_data.array[1])

\* column i of a returned array as a segment record
Segment(arr, i) ==
    [start_year |-> arr[1][i], end_year |-> arr[2][i],
     start_val |-> arr[3][i], end_val |-> arr[4][i],
     mag |-> arr[5][i], dur |-> arr[6][i],
     rate |-> arr[7][i], dsnr |-> arr[8][i]]

Segments(arr) == [i \in 1..Len(arr[1]) |-> Segment(arr, i)]

AllArray == segment_all(index_flip, "None").array

\* what gain/loss report of an 'all' segment
Reported(sg, flip) ==
    LET fl == IF flip THEN Num(-1) ELSE Num(1)
    IN  [start_year |-> sg.start_year, end_year |-> sg.end_year,
         start_val |-> Multiply(sg.start_val, fl), end_val |-> Multiply(sg.end_val, fl),
         mag |-> AbsNum(sg.mag), dur |-> sg.dur,
         rate |-> AbsNum(sg.rate), dsnr |-> AbsNum(sg.dsnr)]

C4_InvalidDeltaRaises ==
    (delta = "change") => segment_data.kind = "raised"

\* C9: a segment of duration 0 has rate -9999 and a pixel of rmse 0 has dSNR
\* -9999 in every segment.
C9_NoDataForZeroDivisor ==
    (Returned /\ ~lt.masked) =>
        \A i \in 1..NumSegments :
            LET sg == Segment(segment_data.array, i)
            IN  /\ sg.dur = Num(0) => sg.rate = Num(-9999)
                /\ rmse = 0 => sg.dsnr = Num(-9999)

\* ------------------------------------------------------------ vertex stack specification
InitVert ==
    /\ lt \in Pixels(SrcValues, {10, 12})
    /\ maxSegments \in 1..MaxSeg
    /\ ltVertStack = NotCalled
    /\ rmse = 0
    /\ delta = "none"
    /\ index_flip = FALSE
    /\ options = "None"
    /\ segment_data = NotCalled
    /\ IdleMmu
    /\ IdleFit
    /\ IdleDates
    /\ IdleStack

GetLTvertStack ==
    /\ ltVertStack = NotCalled
    /\ ltVertStack' = getLTvertStack([maxSegments |-> maxSegments])
    /\ UNCHANGED <<segVars, maxSegments, mmuVars, fitVars, dateVars, stackVars>>

NextVert == GetLTvertStack

SpecVert == InitVert /\ [][NextVert]_vars

\* ------------------------------------------------------------ properties: getLTvertStack
Families == <<"yrs_", "src_", "fit_">>

\* C5: whatever the number M <= maxSegments + 1 of valid vertices, the result
\* has exactly 3 x (maxSegments + 1) bands, yrs_/src_/fit_ crossed with
\* vert_1..vert_(maxSegments+1), holding the (year, source, fitted) values of
\* the M valid vertices in column order and zeros in the other columns.
C5_VertStack ==
    (ltVertStack.kind = "image") =>
        LET n == maxSegments + 1
            M == Len(VertexCols)
        IN  /\ Len(ltVertStack.names) = 3 * n
            /\ \A r \in 1..3, c \in 1..n :
                  ltVertStack.names[(r - 1) * n + c] = Families[r] \o "vert_" \o Str(c)
            /\ maxSegments = 1 =>
                  ltVertStack.names = <<"yrs_vert_1", "yrs_vert_2", "src_vert_1",
                                        "src_vert_2", "fit_vert_1", "fit_vert_2">>
            /\ (~lt.masked /\ M <= n) =>
                  /\ Len(ltVertStack.values) = 3 * n
                  /\ \A r \in 1..3, c \in 1..n :
                        ltVertStack.values[(r - 1) * n + c]
                           = IF c <= M THEN Num(lt.array[r][VertexCols[c]]) ELSE Num(0)

C5_Witness ==
    /\ ltVertStack.kind = "image" /\ ~lt.masked
    /\ maxSegments = 2
    /\ lt.array[4] = <<0, 1, 0>>
    /\ Len(ltVertStack.values) = 9
    /\ ltVertStack.values[1] = Num(lt.array[1][2])
    /\ ltVertStack.values[2] = Num(0)

\* ------------------------------------------------------------ MMU specification
InitMmu ==
    /\ image \in SmallRasters \cup {Strip}
    /\ mmu_value = 1
    /\ min_area = NotCalled
    /\ IdleSeg
    /\ IdleVert
    /\ IdleFit
    /\ IdleDates
    /\ IdleStack

ApplyMmu ==
    \E m \in MmuValues :
        /\ min_area = NotCalled
        /\ mmu_value' = m
        /\ min_area' = apply_mmu(image, m)
        /\ UNCHANGED <<image, segVars, vertVars, fitVars, dateVars, stackVars>>

NextMmu == ApplyMmu

SpecMmu == InitMmu /\ [][NextMmu]_vars

\* ------------------------------------------------------------ properties: apply_mmu
\* C6: the result is 1 exactly on the pixels of a connected component of
\* non-zero input pixels whose size is at least mmu_value, and 0 elsewhere.
C6_KeepsComponentsOfMmuSize ==
    (min_area.kind = "image") =>
        LET G == Grid(image.w, image.h)
            nonzero == {p \in G : image.px[p] # 0}
        IN  \A p \in G :
                min_area.px[p] =
                    (IF p \in nonzero /\ Cardinality(Component(p, nonzero)) >= mmu_value
                     THEN 1 ELSE 0)

\* ------------------------------------------------------------ fitted-series specification
InitFit ==
    /\ self_collection \in Stores
    /\ index = "none"
    /\ bands = <<>>
    /\ vis_params = [min |-> 0, max |-> 255]
    /\ fitted_data = NotCalled
    /\ rgb_col = NotCalled
    /\ IdleDates
    /\ IdleSeg
    /\ IdleVert
    /\ IdleMmu
    /\ IdleStack

GetFittedData ==
    \E idx \in IndexNames, sd \in StartDates, ed \in EndDates :
        /\ fitted_data = NotCalled /\ rgb_col = NotCalled
        /\ index' = idx
        /\ start_date' = sd
        /\ end_date' = ed
        /\ fitted_data' = get_fitted_data(idx, sd, ed)
        /\ UNCHANGED <<self_collection, bands, vis_params, rgb_col, segVars, vertVars, mmuVars, stackVars>>

GetFittedRgbCol ==
    \E bs \in BandTriples, vis \in VisParams, sd \in StartDates, ed \in EndDates :
        /\ fitted_data = NotCalled /\ rgb_col = NotCalled
        /\ bands' = bs
        /\ vis_params' = vis
        /\ start_date' = sd
        /\ end_date' = ed
        /\ rgb_col' = get_fitted_rgb_col(bs, vis, sd, ed)
        /\ UNCHANGED <<self_collection, index, fitted_data, segVars, vertVars, mmuVars, stackVars>>

NextFit == GetFittedData \/ GetFittedRgbCol

SpecFit == InitFit /\ [][NextFit]_vars

\* ------------------------------------------------------------ properties: fitted series
\* the fitted annual sequence of the index of the last get_fitted_data call
FittedSequence ==
    IF index \in {"NDVI", "ndvi"} THEN self_collection["ftv_ndvi_fit"]
    ELSE IF index = "NBR" THEN self_collection["ftv_nbr_fit"]
    ELSE self_collection["ftv_tcw_fit"]

HasFittedBand == index \in {"NDVI", "ndvi", "NBR", "TCW"}

C7_TaggedWithOwnYear ==
    (rgb_col.kind = "collection") =>
        /\ Len(rgb_col.images) = end_date.year - start_date.year + 1
        /\ \A k \in 1..Len(rgb_col.images) :
              LET y == start_date.year + k - 1
              IN  /\ rgb_col.images[k].composite_year = y
                  /\ rgb_col.images[k].time_start >= DaysFromCivil(y, 1, 1)
                  /\ rgb_col.images[k].time_start < DaysFromCivil(y + 1, 1, 1)

\* ------------------------------------------------------------ band-stack specification
InitStack ==
    /\ collection \in Collections
    /\ mask_fill = 0
    /\ band_stack = NotCalled
    /\ IdleDates
    /\ IdleSeg
    /\ IdleVert
    /\ IdleMmu
    /\ IdleFit

CollectionToBandStack ==
    \E sy \in StackYears, ey \in StackYears, fill \in MaskFills :
        /\ band_stack = NotCalled
        /\ start_date' = [year |-> sy, month |-> 1, day |-> 1]
        /\ end_date' = [year |-> ey, month |-> 12, day |-> 31]
        /\ mask_fill' = fill
        /\ band_stack' = collection_to_band_stack(
                             collection, [year |-> sy, month |-> 1, day |-> 1],
                             [year |-> ey, month |-> 12, day |-> 31], fill)
        /\ UNCHANGED <<collection, segVars, vertVars, mmuVars, fitVars>>

NextStack == CollectionToBandStack

SpecStack == InitStack /\ [][NextStack]_vars

\* ------------------------------------------------------------ properties: band stack
NumImages == Len(collection)

NumBands == Len(collection[1].names)

====
